---- MODULE Spec2Model ----
(***************************************************************************)
(* Model of app.py: a Slack Bolt application with two custom functions     *)
(* ("search" and "filters") over the in-memory catalog SONGS, and one      *)
(* event listener ("entity_details_requested").                            *)
(*                                                                         *)
(* Each listener is modelled statement by statement with its own program   *)
(* counter; one invocation of each listener may be in flight at a time and *)
(* the three interleave freely, as Bolt runs listeners on a thread pool.   *)
(* Python dicts are functions from keys to values, so that the presence of *)
(* a key is DOMAIN membership.                                             *)
(***************************************************************************)
EXTENDS Integers, Sequences, FiniteSets, Bags, TLC

VARIABLES
    SONGS,            \* the module-level catalog list
    s_pc,             \* position of handle_search_step_event
    inputs,           \* its `inputs` argument
    singles_filter,   \* its locals
    bands_filter,
    filtered_songs,
    results,
    s_exc,            \* exception in flight in / raised by the search handler
    s_signals,        \* ack / complete / fail signals the invocation has sent
    search_prev,      \* history: output of the preceding search when the same inputs are repeated
    f_pc,             \* position of handle_filters_step_event
    unique_bands,     \* its locals
    filters,
    f_exc,
    f_signals,
    filters_prev,     \* history: option sets of earlier delivered filters outputs
    e_pc,             \* position of handle_flexpane_event
    event,            \* its `event` argument
    payload,          \* its local
    api_calls,        \* client.api_call invocations made by the current event handling
    e_exc,            \* exception in flight in / raised by the event handler
    error_log         \* logger.error messages of the current event handling

vars == << SONGS, s_pc, inputs, singles_filter, bands_filter, filtered_songs, results,
           s_exc, s_signals, search_prev, f_pc, unique_bands, filters, f_exc, f_signals,
           filters_prev, e_pc, event, payload, api_calls, e_exc, error_log >>

search_vars == << s_pc, inputs, singles_filter, bands_filter, filtered_songs, results,
                  s_exc, s_signals, search_prev >>

filters_vars == << f_pc, unique_bands, filters, f_exc, f_signals, filters_prev >>

event_vars == << e_pc, event, payload, api_calls, e_exc, error_log >>

----------------------------------------------------------------------------
(* MODELS *)

FilterType == [ MULTI_SELECT |-> "multi_select", TOGGLE |-> "toggle" ]

----------------------------------------------------------------------------
(* DATA *)

SeedSONGS ==
   << 
      [ id |-> "pf-001",
        title |-> "Comfortably Numb",
        description |-> "From the album 'The Wall' (1979), features one of David Gilmour's most famous guitar solos",
        link |-> "https://example.com/pinkfloyd/comfortably-numb",
        band |-> "Pink Floyd",
        is_single |-> FALSE,
        date_updated |-> "2023-01-01",
        content |-> "Comfortably Numb is a song by the English rock band Pink Floyd, released on their eleventh studio album, The Wall (1979). It was released as a single in 1980, with \"Hey You\" as the B-side.The lyrics were written by the bassist, Roger Waters, who recalled his experience of being injected with tranquilisers before a performance in 1977; the music was composed by the band's guitarist, David Gilmour. Waters and Gilmour argued during the recording, with Waters seeking an orchestral arrangement and Gilmour preferring a more stripped-down arrangement. They compromised by combining both versions, and Gilmour said the song was the last time he and Waters were able to work together constructively." ],
      [ id |-> "pf-002",
        title |-> "Wish You Were Here",
        description |-> "Title track from the 1975 album, written as a tribute to former band member Syd Barrett",
        link |-> "https://example.com/pinkfloyd/wish-you-were-here",
        band |-> "Pink Floyd",
        is_single |-> FALSE,
        date_updated |-> "2023-02-01" ],
      [ id |-> "pf-003",
        title |-> "Time",
        description |-> "From the album 'The Dark Side of the Moon' (1973), known for its iconic clock sound effects",
        link |-> "https://example.com/pinkfloyd/time",
        band |-> "Pink Floyd",
        is_single |-> FALSE,
        date_updated |-> "2023-03-01" ],
      [ id |-> "rs-001",
        title |-> "Paint It Black",
        description |-> "Released as a single in 1966, reaching number one on both UK and US charts",
        link |-> "https://example.com/rollingstones/paint-it-black",
        band |-> "Rolling Stones",
        is_single |-> TRUE,
        date_updated |-> "2023-04-15" ],
      [ id |-> "rs-002",
        title |-> "Sympathy for the Devil",
        description |-> "From the album 'Beggars Banquet' (1968), one of their most controversial songs",
        link |-> "https://example.com/rollingstones/sympathy-for-the-devil",
        band |-> "Rolling Stones",
        is_single |-> FALSE,
        date_updated |-> "2023-05-20" ],
      [ id |-> "beatles-001",
        title |-> "Hey Jude",
        description |-> "Released as a single in 1968, became one of their biggest hits",
        link |-> "https://example.com/beatles/hey-jude",
        band |-> "The Beatles",
        is_single |-> TRUE,
        date_updated |-> "2023-06-10" ],
      [ id |-> "beatles-002",
        title |-> "Let It Be",
        description |-> "From the album 'Let It Be' (1970), one of their final singles",
        link |-> "https://example.com/beatles/let-it-be",
        band |-> "The Beatles",
        is_single |-> TRUE,
        date_updated |-> "2023-07-05" ],
      [ id |-> "lz-001",
        title |-> "Stairway to Heaven",
        description |-> "From the album 'Led Zeppelin IV' (1971), often cited as one of greatest rock songs of all time",
        link |-> "https://example.com/ledzeppelin/stairway-to-heaven",
        band |-> "Led Zeppelin",
        is_single |-> FALSE,
        date_updated |-> "2023-08-12" ],
      [ id |-> "queen-001",
        title |-> "Bohemian Rhapsody",
        description |-> "From the album 'A Night at the Opera' (1975), pioneering song with no chorus",
        link |-> "https://example.com/queen/bohemian-rhapsody",
        band |-> "Queen",
        is_single |-> TRUE,
        date_updated |-> "2023-09-18",
        content |-> "Bohemian Rhapsody can refer to two distinct entities: the iconic song by the British rock band Queen, and the 2018 biographical film about the band and its lead singer, Freddie Mercury." ],
      [ id |-> "acdc-001",
        title |-> "Back in Black",
        description |-> "Title track from the 1980 album, written as a tribute to deceased singer Bon Scott",
        link |-> "https://example.com/acdc/back-in-black",
        band |-> "AC/DC",
        is_single |-> TRUE,
        date_updated |-> "2023-10-25",
        content |-> "Back in Black is the seventh studio album by Australian rock band AC/DC, released on 25 July 1980, by Albert Productions and Atlantic Records. It was the band's first album to feature Brian Johnson as lead singer, following the death of their previous vocalist Bon Scott. After the commercial breakthrough of their 1979 album Highway to Hell, AC/DC was planning to record a follow-up, but in February 1980, Scott died from alcohol poisoning after a drinking binge. The remaining members of the group considered disbanding, but ultimately chose to continue on and recruited Johnson, who had previously been the vocalist for Geordie." ]
   >>

(* Catalogs the listeners are run against: the seeded list and shorter     *)
(* lists of the same entities (the empty one included), in catalog order.  *)
Catalogs == { SubSeq(SeedSONGS, 1, n) : n \in {0, 4, Len(SeedSONGS)} }

----------------------------------------------------------------------------
(* Inputs *)

\* Largest number of band names a request selects.
MaxBandsSelected == 2

\* Band names a request may select: three of the catalog, one unknown to it.
SelectableBands == { "Pink Floyd", "Queen", "The Beatles", "Nirvana" }

\* An optional value is a sequence of length 0 (absent) or 1 (present).
IsSingleChoices == { <<>>, <<FALSE>>, <<TRUE>> }

BandsChoices ==
    { <<>> } \cup { <<B>> : B \in { S \in SUBSET SelectableBands : Cardinality(S) <= MaxBandsSelected } }

UnknownKeyChoices == { <<>>, <<"rock">> }

\* The dict with the chosen keys: is_single, bands and the unrecognised key genre.
FilterSelection(s, b, g) ==
    [ k \in ({ "is_single" : x \in { 1 } \cap DOMAIN s } \cup { "bands" : x \in { 1 } \cap DOMAIN b }
               \cup { "genre" : x \in { 1 } \cap DOMAIN g })
        |-> CASE k = "is_single" -> s[1]
              [] k = "bands"     -> b[1]
              [] k = "genre"     -> g[1] ]

FilterSelections ==
    { FilterSelection(s, b, g) : s \in IsSingleChoices, b \in BandsChoices, g \in UnknownKeyChoices }

\* The `inputs` of a search invocation: with a "filters" mapping, or without one.
SearchInputs ==
    { [ query |-> "rock" ] } \cup { [ query |-> "rock", filters |-> sel ] : sel \in FilterSelections }

\* The selections of a few concrete requests: nothing selected, singles only,
\* one band, and singles of a band that has none.
ExampleInputs ==
    { [ query |-> "rock" ],
      [ query |-> "rock", filters |-> FilterSelection(<<>>, <<>>, <<>>) ],
      [ query |-> "rock", filters |-> FilterSelection(<<TRUE>>, <<>>, <<>>) ],
      [ query |-> "rock", filters |-> FilterSelection(<<>>, <<{ "Queen" }>>, <<>>) ],
      [ query |-> "rock", filters |-> FilterSelection(<<TRUE>>, <<{ "Pink Floyd" }>>, <<>>) ] }

TriggerIds == { "trigger-1", "trigger-2" }

EntityDetailsRequestedEvent(t) ==
    [ type |-> "entity_details_requested",
      user |-> "U123",
      external_ref |-> [ id |-> "pf-001" ],
      trigger_id |-> t,
      link |-> [ url |-> "https://example.com/pinkfloyd/comfortably-numb", domain |-> "example.com" ] ]

----------------------------------------------------------------------------
(* Helpers *)

\* dict.get(key, default)
Get(d, key, default) == IF key \in DOMAIN d THEN d[key] ELSE default

\* [song for song in songs if song["is_single"]]
SinglesOnly(songs) == SelectSeq(songs, LAMBDA song : song.is_single)

\* [song for song in songs if song["band"] in bands]
InBands(songs, bands) == SelectSeq(songs, LAMBDA song : song.band \in bands)

\* FilterSongs with the band narrowing applied even when no band is selected
FilterSongsUnguardedBands(songs, singles, bands) ==
    LET after_singles == IF singles THEN SinglesOnly(songs) ELSE songs
    IN  InBands(after_singles, bands)

\* lines 195-201: sequential narrowing; a falsy filter leaves the list alone
FilterSongs(songs, singles, bands) ==
    LET after_singles == IF singles THEN SinglesOnly(songs) ELSE songs
    IN  IF bands # {} THEN InBands(after_singles, bands) ELSE after_singles

\* ResultOf with the content key always filled in
ResultOfDefaultContent(song) ==
    [ title |-> song.title, description |-> song.description, link |-> song.link,
      date_updated |-> song.date_updated, external_ref |-> [ id |-> song.id ],
      content |-> IF "content" \in DOMAIN song THEN song.content ELSE "" ]

\* line 204: the dict built for one song
ResultOf(song) ==
    IF "content" \in DOMAIN song
    THEN [ title |-> song.title, description |-> song.description, link |-> song.link,
           date_updated |-> song.date_updated, external_ref |-> [ id |-> song.id ],
           content |-> song.content ]
    ELSE [ title |-> song.title, description |-> song.description, link |-> song.link,
           date_updated |-> song.date_updated, external_ref |-> [ id |-> song.id ] ]

\* lines 203-206
BuildResults(songs) == [ i \in 1..Len(songs) |-> ResultOf(songs[i]) ]

Finished == { "idle", "returned", "raised" }

\* the outputs of the complete signals among sigs
Delivered(sigs) == SelectSeq(sigs, LAMBDA s : s.signal = "complete")

----------------------------------------------------------------------------
(* handle_search_step_event *)

\* The platform invokes the search function.  Locals start unassigned.
SearchInvoke(candidates) ==
    /\ s_pc \in Finished
    /\ \E inp \in candidates :
         /\ inputs' = inp
         /\ search_prev' = IF inp = inputs /\ Delivered(s_signals) # <<>>
                           THEN << Delivered(s_signals)[1].outputs.search_result >>
                           ELSE <<>>
    /\ singles_filter' = FALSE
    /\ bands_filter' = {}
    /\ filtered_songs' = <<>>
    /\ results' = <<>>
    /\ s_exc' = "none"
    /\ s_signals' = <<>>
    /\ s_pc' = "read_filters"
    /\ UNCHANGED << SONGS, filters_vars, event_vars >>

\* lines 191-192, outside the try: inputs["filters"] raises KeyError when the key is missing
SearchReadFilters ==
    /\ s_pc = "read_filters"
    /\ IF "filters" \in DOMAIN inputs
       THEN /\ singles_filter' = Get(inputs["filters"], "is_single", FALSE)
            /\ bands_filter' = Get(inputs["filters"], "bands", {})
            /\ s_pc' = "filter_songs"
            /\ s_exc' = s_exc
       ELSE /\ s_exc' = "KeyError"
            /\ s_pc' = "raised"
            /\ UNCHANGED << singles_filter, bands_filter >>
    /\ UNCHANGED << SONGS, inputs, filtered_songs, results, s_signals, search_prev,
                    filters_vars, event_vars >>

\* SearchFilterSongs narrowing the catalog list in place
SearchFilterSongsInPlace ==
    /\ s_pc = "filter_songs"
    /\ SONGS' = FilterSongs(SONGS, singles_filter, bands_filter)
    /\ filtered_songs' = SONGS'
    /\ s_pc' = "build_results"
    /\ UNCHANGED << inputs, singles_filter, bands_filter, results, s_exc, s_signals,
                    search_prev, filters_vars, event_vars >>

\* lines 195-201
SearchFilterSongs ==
    /\ s_pc = "filter_songs"
    /\ filtered_songs' = FilterSongs(SONGS, singles_filter, bands_filter)
    /\ s_pc' = "build_results"
    /\ UNCHANGED << SONGS, inputs, singles_filter, bands_filter, results, s_exc, s_signals,
                    search_prev, filters_vars, event_vars >>

\* lines 203-208
SearchBuildResults ==
    /\ s_pc = "build_results"
    /\ results' = BuildResults(filtered_songs)
    /\ s_pc' = "complete"
    /\ UNCHANGED << SONGS, inputs, singles_filter, bands_filter, filtered_songs, s_exc,
                    s_signals, search_prev, filters_vars, event_vars >>

\* SearchComplete with the acknowledgment sent ahead of the result
SearchCompleteAfterAck ==
    /\ s_pc = "complete"
    /\ s_signals' = s_signals \o << [ signal |-> "ack" ],
                                    [ signal |-> "complete", outputs |-> [ search_result |-> results ] ] >>
    /\ s_pc' = "finally"
    /\ UNCHANGED << SONGS, inputs, singles_filter, bands_filter, filtered_songs, results,
                    s_exc, search_prev, filters_vars, event_vars >>

\* line 209: complete(outputs=...) reaches the platform
SearchComplete ==
    /\ s_pc = "complete"
    /\ s_signals' = Append(s_signals, [ signal |-> "complete",
                                        outputs |-> [ search_result |-> results ] ])
    /\ s_pc' = "finally"
    /\ UNCHANGED << SONGS, inputs, singles_filter, bands_filter, filtered_songs, results,
                    s_exc, search_prev, filters_vars, event_vars >>

\* line 209: the functions.completeSuccess call fails and complete raises
SearchCompleteRaises ==
    /\ s_pc = "complete"
    /\ s_exc' = "SlackApiError"
    /\ s_pc' = "finally"
    /\ UNCHANGED << SONGS, inputs, singles_filter, bands_filter, filtered_songs, results,
                    s_signals, search_prev, filters_vars, event_vars >>

\* lines 210-211: the finally clause acks, then the handler returns or re-raises
SearchAck ==
    /\ s_pc = "finally"
    /\ s_signals' = Append(s_signals, [ signal |-> "ack" ])
    /\ s_pc' = IF s_exc = "none" THEN "returned" ELSE "raised"
    /\ UNCHANGED << SONGS, inputs, singles_filter, bands_filter, filtered_songs, results,
                    s_exc, search_prev, filters_vars, event_vars >>

----------------------------------------------------------------------------
(* handle_filters_step_event *)

\* UniqueBands stopping one song short of the end of the list
UniqueBandsButLast(songs) == { songs[i].band : i \in 1..(Len(songs) - 1) }

\* line 222: {song["band"] for song in SONGS}
UniqueBands(songs) == { songs[i].band : i \in 1..Len(songs) }

\* line 229: one option dict per element of the set.  A list built by iterating a
\* Python set has no specified order, so it is kept as the bag of its elements.
BandOptions(bands) == SetToBag({ [ name |-> band, value |-> band ] : band \in bands })

\* BuildFilters with an empty option list on the toggle
BuildFiltersToggleOptions(bands) ==
    << [ name |-> "bands",
         display_name |-> "Bands",
         type |-> FilterType.MULTI_SELECT,
         options |-> BandOptions(bands) ],
       [ name |-> "is_single",
         display_name |-> "Singles Only",
         type |-> FilterType.TOGGLE,
         options |-> EmptyBag ] >>

\* lines 224-236
BuildFilters(bands) ==
    << [ name |-> "bands",
         display_name |-> "Bands",
         type |-> FilterType.MULTI_SELECT,
         options |-> BandOptions(bands) ],
       [ name |-> "is_single",
         display_name |-> "Singles Only",
         type |-> FilterType.TOGGLE ] >>

\* The platform invokes the filters function.  Locals start unassigned.
FiltersInvoke ==
    /\ f_pc \in Finished
    /\ filters_prev' = filters_prev \cup
          { BagToSet(Delivered(f_signals)[i].outputs.filters[1].options) :
              i \in 1..Len(Delivered(f_signals)) }
    /\ unique_bands' = {}
    /\ filters' = <<>>
    /\ f_exc' = "none"
    /\ f_signals' = <<>>
    /\ f_pc' = "unique_bands"
    /\ UNCHANGED << SONGS, search_vars, event_vars >>

\* line 222
FiltersUniqueBands ==
    /\ f_pc = "unique_bands"
    /\ unique_bands' = UniqueBands(SONGS)
    /\ f_pc' = "build_filters"
    /\ UNCHANGED << SONGS, filters, f_exc, f_signals, filters_prev, search_vars, event_vars >>

\* lines 224-236
FiltersBuildFilters ==
    /\ f_pc = "build_filters"
    /\ filters' = BuildFilters(unique_bands)
    /\ f_pc' = "complete"
    /\ UNCHANGED << SONGS, unique_bands, f_exc, f_signals, filters_prev, search_vars, event_vars >>

\* line 238: complete(outputs=...) reaches the platform
FiltersComplete ==
    /\ f_pc = "complete"
    /\ f_signals' = Append(f_signals, [ signal |-> "complete", outputs |-> [ filters |-> filters ] ])
    /\ f_pc' = "finally"
    /\ UNCHANGED << SONGS, unique_bands, filters, f_exc, filters_prev, search_vars, event_vars >>

\* line 238: the functions.completeSuccess call fails and complete raises
FiltersCompleteRaises ==
    /\ f_pc = "complete"
    /\ f_exc' = "SlackApiError"
    /\ f_pc' = "finally"
    /\ UNCHANGED << SONGS, unique_bands, filters, f_signals, filters_prev, search_vars, event_vars >>

\* lines 239-240: the finally clause acks, then the handler returns or re-raises
FiltersAck ==
    /\ f_pc = "finally"
    /\ f_signals' = Append(f_signals, [ signal |-> "ack" ])
    /\ f_pc' = IF f_exc = "none" THEN "returned" ELSE "raised"
    /\ UNCHANGED << SONGS, unique_bands, filters, f_exc, filters_prev, search_vars, event_vars >>

----------------------------------------------------------------------------
(* handle_flexpane_event *)

\* lines 247-275
BuildPayload(ev) ==
    [ trigger_id |-> ev.trigger_id,
      metadata |->
        [ entity_type |-> "slack#/entities/item",
          url |-> ev.link.url,
          external_ref |-> [ id |-> "123" ],
          entity_payload |->
            [ attributes |->
                [ title |-> [ text |-> "hello world",
                              edit |-> [ enabled |-> TRUE, text |-> [ max_length |-> 50 ] ] ] ],
              custom_fields |->
                << [ key |-> "description", label |-> "Description", type |-> "string",
                     value |-> "This is a description" ] >> ] ] ]

\* lines 278-281: the arguments of client.api_call, with whether the call raised
ApiCall(json, raised) == [ api_method |-> "entity.presentDetails", json |-> json, raised |-> raised ]

\* The platform delivers an entity_details_requested event.
EventReceive ==
    /\ e_pc \in Finished
    /\ \E t \in TriggerIds : event' = EntityDetailsRequestedEvent(t)
    /\ payload' = [ trigger_id |-> "" ]
    /\ api_calls' = <<>>
    /\ e_exc' = "none"
    /\ error_log' = <<>>
    /\ e_pc' = "build_payload"
    /\ UNCHANGED << SONGS, search_vars, filters_vars >>

\* lines 244-275
EventBuildPayload ==
    /\ e_pc = "build_payload"
    /\ payload' = BuildPayload(event)
    /\ e_pc' = "api_call"
    /\ UNCHANGED << SONGS, event, api_calls, e_exc, error_log, search_vars, filters_vars >>

\* lines 277-281: the outbound call succeeds and the handler returns
EventApiCall ==
    /\ e_pc = "api_call"
    /\ api_calls' = Append(api_calls, ApiCall(payload, FALSE))
    /\ e_pc' = "returned"
    /\ UNCHANGED << SONGS, event, payload, e_exc, error_log, search_vars, filters_vars >>

\* lines 277-282: the outbound call raises and control passes to the except clause
EventApiCallRaises ==
    /\ e_pc = "api_call"
    /\ api_calls' = Append(api_calls, ApiCall(payload, TRUE))
    /\ e_exc' = "SlackApiError"
    /\ e_pc' = "except"
    /\ UNCHANGED << SONGS, event, payload, error_log, search_vars, filters_vars >>

\* EventExcept logging the exception and raising it again
EventExceptReraise ==
    /\ e_pc = "except"
    /\ error_log' = Append(error_log, "Error calling entity.presentDetails: " \o e_exc)
    /\ e_pc' = "raised"
    /\ UNCHANGED << SONGS, event, payload, api_calls, e_exc, search_vars, filters_vars >>

\* lines 282-283: the exception is logged and dropped, and the handler returns
EventExcept ==
    /\ e_pc = "except"
    /\ error_log' = Append(error_log, "Error calling entity.presentDetails: " \o e_exc)
    /\ e_exc' = "none"
    /\ e_pc' = "returned"
    /\ UNCHANGED << SONGS, event, payload, api_calls, search_vars, filters_vars >>

----------------------------------------------------------------------------

Init ==
    /\ SONGS \in Catalogs
    /\ s_pc = "idle"
    /\ inputs = [ query |-> "rock" ]
    /\ singles_filter = FALSE
    /\ bands_filter = {}
    /\ filtered_songs = <<>>
    /\ results = <<>>
    /\ s_exc = "none"
    /\ s_signals = <<>>
    /\ search_prev = <<>>
    /\ f_pc = "idle"
    /\ unique_bands = {}
    /\ filters = <<>>
    /\ f_exc = "none"
    /\ f_signals = <<>>
    /\ filters_prev = {}
    /\ e_pc = "idle"
    /\ event = EntityDetailsRequestedEvent("trigger-1")
    /\ payload = [ trigger_id |-> "" ]
    /\ api_calls = <<>>
    /\ e_exc = "none"
    /\ error_log = <<>>

Next ==
    \/ SearchInvoke(ExampleInputs)
    \/ SearchReadFilters
    \/ SearchFilterSongs
    \/ SearchBuildResults
    \/ SearchComplete
    \/ SearchCompleteRaises
    \/ SearchAck
    \/ FiltersInvoke
    \/ FiltersUniqueBands
    \/ FiltersBuildFilters
    \/ FiltersComplete
    \/ FiltersCompleteRaises
    \/ FiltersAck
    \/ EventReceive
    \/ EventBuildPayload
    \/ EventApiCall
    \/ EventApiCallRaises
    \/ EventExcept

Spec == Init /\ [][Next]_vars

\* The search function alone, invoked with every selection.
NextSearch ==
    \/ SearchInvoke(SearchInputs)
    \/ SearchReadFilters
    \/ SearchFilterSongs
    \/ SearchBuildResults
    \/ SearchComplete
    \/ SearchCompleteRaises
    \/ SearchAck

SpecSearch == Init /\ [][NextSearch]_vars

----------------------------------------------------------------------------
(* Properties *)

Signal(sigs, name) == SelectSeq(sigs, LAMBDA s : s.signal = name)

Exited == { "returned", "raised" }

\* the ids the results refer to, in order
RefIds(rs) == [ i \in 1..Len(rs) |-> rs[i].external_ref.id ]

Ids(songs) == [ i \in 1..Len(songs) |-> songs[i].id ]

SelectsSingles(sel) == "is_single" \in DOMAIN sel /\ sel["is_single"] = TRUE

SelectedBands(sel) == IF "bands" \in DOMAIN sel THEN sel["bands"] ELSE {}

\* the catalog entities a selection asks for, in catalog order
Matching(sel) ==
    SelectSeq(SONGS, LAMBDA e : /\ (~SelectsSingles(sel) \/ e.is_single)
                                /\ (SelectedBands(sel) = {} \/ e.band \in SelectedBands(sel)))

ResultsBuilt == s_pc \in { "complete", "finally", "returned", "raised" } /\ s_exc # "KeyError"

\* C1: for every selection the search returns exactly the catalog entities that pass
\* every active filter (singles when is_single is truthy, membership when bands is
\* non-empty), in catalog order; the empty selection returns the whole catalog and
\* no selection raises.
C1_SearchReturnsMatching ==
    "filters" \in DOMAIN inputs =>
        /\ s_exc # "KeyError"
        /\ ResultsBuilt => RefIds(results) = Ids(Matching(inputs["filters"]))
        /\ \A i \in 1..Len(Delivered(s_signals)) :
              /\ RefIds(Delivered(s_signals)[i].outputs.search_result)
                    = Ids(Matching(inputs["filters"]))
              /\ DOMAIN inputs["filters"] = {} =>
                    RefIds(Delivered(s_signals)[i].outputs.search_result) = Ids(SONGS)

\* C1 witness: both filters active, some but not all entities returned
C1_Witness ==
    /\ "filters" \in DOMAIN inputs
    /\ SelectsSingles(inputs["filters"])
    /\ SelectedBands(inputs["filters"]) # {}
    /\ "genre" \in DOMAIN inputs["filters"]
    /\ Delivered(s_signals) # <<>>
    /\ Len(Delivered(s_signals)[1].outputs.search_result) \in 1..(Len(SONGS) - 1)

\* C2 (as claimed): every invocation of search and of filters that has exited, by
\* return or by exception, has sent ack exactly once.
C2_AckOnEveryExit ==
    /\ s_pc \in Exited => Len(Signal(s_signals, "ack")) = 1
    /\ f_pc \in Exited => Len(Signal(f_signals, "ack")) = 1

\* C3 (as claimed): every invocation of search and of filters that has exited has
\* sent exactly one result signal, complete or fail.
C3_ResultSignalOnEveryExit ==
    /\ s_pc \in Exited => Len(Delivered(s_signals)) + Len(Signal(s_signals, "fail")) = 1
    /\ f_pc \in Exited => Len(Delivered(f_signals)) + Len(Signal(f_signals, "fail")) = 1

\* C4 (as claimed): every result carries id, title, description, link, date_updated
\* and entity_reference, with id the entity's id and entity_reference exactly {id};
\* band and is_single are not in a result.
C4_ResultFields ==
    ResultsBuilt =>
        \A i \in 1..Len(results) :
            /\ { "id", "title", "description", "link", "date_updated", "entity_reference" }
                  \subseteq DOMAIN results[i]
            /\ results[i]["id"] = filtered_songs[i].id
            /\ results[i]["entity_reference"] = [ id |-> filtered_songs[i].id ]
            /\ "band" \notin DOMAIN results[i]
            /\ "is_single" \notin DOMAIN results[i]

\* C5: the projection yields one result per matching entity in the same order, and
\* a result has the content key, with the entity's content, exactly when the entity
\* has it.
C5_ContentIffPresent ==
    ResultsBuilt =>
        /\ Len(results) = Len(filtered_songs)
        /\ Ids(filtered_songs) = Ids(Matching(inputs["filters"]))
        /\ \A i \in 1..Len(results) :
              /\ results[i].external_ref.id = filtered_songs[i].id
              /\ results[i].title = filtered_songs[i].title
              /\ "content" \in DOMAIN results[i] <=> "content" \in DOMAIN filtered_songs[i]
              /\ "content" \in DOMAIN results[i] => results[i].content = filtered_songs[i].content

\* C5 witness: delivered results with and without content
C5_Witness ==
    /\ Delivered(s_signals) # <<>>
    /\ \E i, j \in 1..Len(results) :
          /\ "content" \in DOMAIN results[i] /\ results[i].content # ""
          /\ "content" \notin DOMAIN results[j]

DistinctBands == { SONGS[i].band : i \in 1..Len(SONGS) }

\* C6: the filters output is exactly two definitions: bands, a multi_select with one
\* {name, value} option per distinct band of the catalog (name = value, no
\* duplicate, none missing, none extra), then is_single, a toggle without options;
\* on an empty catalog bands is still there with no options.
C6_TwoFilterDefinitions ==
    \A i \in 1..Len(Delivered(f_signals)) :
        LET out == Delivered(f_signals)[i].outputs.filters
        IN  /\ Len(out) = 2
            /\ out[1].name = "bands"
            /\ out[1].type = "multi_select"
            /\ "options" \in DOMAIN out[1]
            /\ \A o \in BagToSet(out[1].options) :
                  /\ DOMAIN o = { "name", "value" }
                  /\ o.name = o.value
                  /\ o.value \in DistinctBands
                  /\ CopiesIn(o, out[1].options) = 1
            /\ \A b \in DistinctBands : \E o \in BagToSet(out[1].options) : o.value = b
            /\ SONGS = <<>> => out[1].options = EmptyBag
            /\ out[2].name = "is_single"
            /\ out[2].type = "toggle"
            /\ "options" \notin DOMAIN out[2]

\* C6 witness: filters delivered for the empty catalog
C6_Witness ==
    /\ SONGS = <<>>
    /\ f_pc = "returned"
    /\ Len(Delivered(f_signals)) = 1

\* C7 (as claimed): the bands option set has as many options as the catalog has
\* distinct bands, 9 for the seeded catalog, AC/DC included.
C7_NineBands ==
    \A i \in 1..Len(Delivered(f_signals)) :
        LET options == Delivered(f_signals)[i].outputs.filters[1].options
        IN  /\ BagCardinality(options) = Cardinality(DistinctBands)
            /\ SONGS = SeedSONGS =>
                  /\ BagCardinality(options) = 9
                  /\ BagIn([ name |-> "AC/DC", value |-> "AC/DC" ], options)

\* C7 (amended): the bands option set has as many options as the catalog has
\* distinct bands, 6 for the seeded catalog, AC/DC included.
C7_SixBands ==
    \A i \in 1..Len(Delivered(f_signals)) :
        LET options == Delivered(f_signals)[i].outputs.filters[1].options
        IN  /\ BagCardinality(options) = Cardinality(DistinctBands)
            /\ SONGS = SeedSONGS =>
                  /\ BagCardinality(options) = 6
                  /\ BagIn([ name |-> "AC/DC", value |-> "AC/DC" ], options)

\* C7 witness: filters delivered for the seeded catalog
C7_Witness ==
    /\ SONGS = SeedSONGS
    /\ Delivered(f_signals) # <<>>

\* C8: an entity_details_requested event leads to exactly one entity.presentDetails
\* call carrying the event's trigger_id; when that call raises, the exception is
\* logged and the handler returns: it never propagates and the call is not retried.
C8_PresentDetailsFailureSwallowed ==
    /\ e_pc # "raised"
    /\ Len(api_calls) <= 1
    /\ e_pc = "returned" =>
          /\ Len(api_calls) = 1
          /\ api_calls[1].api_method = "entity.presentDetails"
          /\ api_calls[1].json.trigger_id = event.trigger_id
          /\ e_exc = "none"
          /\ Len(error_log) = IF api_calls[1].raised THEN 1 ELSE 0

\* C8 witness: the call for trigger-2 raised and the handler returned
C8_Witness ==
    /\ e_pc = "returned"
    /\ event.trigger_id = "trigger-2"
    /\ Len(api_calls) = 1
    /\ api_calls[1].raised
    /\ Len(error_log) = 1

\* C9: no step of any handler changes the catalog, so every filters output has the
\* same option set as the earlier ones and a repeated search returns what it
\* returned before.
C9_CatalogReadOnly ==
    /\ [][SONGS' = SONGS]_vars
    /\ [](\A i \in 1..Len(Delivered(f_signals)) :
             \A prev \in filters_prev :
                BagToSet(Delivered(f_signals)[i].outputs.filters[1].options) = prev)
    /\ [](\A i \in 1..Len(Delivered(s_signals)) :
             \A j \in 1..Len(search_prev) :
                Delivered(s_signals)[i].outputs.search_result = search_prev[j])

\* C9 witness: a repeated search and a repeated filters request, both delivered,
\* with an event handled as well
C9_Witness ==
    /\ search_prev # <<>>
    /\ Delivered(s_signals) # <<>>
    /\ Len(Delivered(s_signals)[1].outputs.search_result) \in 1..(Len(SONGS) - 1)
    /\ filters_prev # {}
    /\ Delivered(f_signals) # <<>>
    /\ e_pc = "returned"

\* C10: ack is the last signal of an invocation of search or filters, so complete
\* comes before it, and no invocation sends fail.
C10_AckLastNoFail ==
    \A sigs \in { s_signals, f_signals } :
        \A i \in 1..Len(sigs) :
            /\ sigs[i].signal # "fail"
            /\ sigs[i].signal = "ack" => i = Len(sigs)

\* C10 witness: both handlers have sent complete and then ack
C10_Witness ==
    /\ Len(s_signals) = 2 /\ s_signals[1].signal = "complete" /\ s_signals[2].signal = "ack"
    /\ Len(f_signals) = 2 /\ f_signals[1].signal = "complete" /\ f_signals[2].signal = "ack"

====
